---- MODULE Spec2Model ----
(***************************************************************************)
(* SitSmartCoach: a camera worker thread (PostureWorker.run) that turns    *)
(* pose landmarks into status lines and hands them to a Tk popup           *)
(* (FloatingPopup._pump_queue) through queue.Queue(maxsize=2).             *)
(*                                                                         *)
(* Units.  Normalized landmark coordinates are integers in units of 1/U    *)
(* of the frame (U = 3200), so that 0.03 is 96 units and one pixel of a    *)
(* 640 wide frame is 5 units.  Floating-point values that the code keeps   *)
(* (distances, medians) are exact rationals <<n, d>> in lowest terms.      *)
(***************************************************************************)
EXTENDS Integers, Sequences, FiniteSets, TLC

\* ------------------------------------------------------------ bounds
\* camera reads of the worker while the popup runs beside it
MaxReads == 3
\* frames fed to the worker alone, over every kind of frame
MaxFrames == 3
\* frames fed to the worker alone, enough to overfill the windows
MaxSmoothFrames == 8

\* ------------------------------------------------------------ constants
ELBOW_MIN == 50
ELBOW_MAX == 180
DIST_MIN_CM == 70
DIST_MAX_CM == 100
AVG_SHOULDER_WIDTH_CM == 30
FOCAL_LENGTH_PX == 650
SMOOTH_N == 7
QUEUE_MAXSIZE == 2
FRAME_WIDTH == 640
FRAME_HEIGHT == 480
\* units per normalized coordinate 1.0
U == 32 * 100
\* the gaze deadband 0.03, in units, doubled (diff is kept doubled)
DEADBAND2 == (2 * 3 * U) \div 100

\* ------------------------------------------------------------ rationals
RECURSIVE Gcd(_, _)
Gcd(a, b) == IF b = 0 THEN a ELSE Gcd(b, a % b)

Rat(n, d) == LET g == Gcd(n, d) IN <<n \div g, d \div g>>

RLt(a, b) == a[1] * b[2] < b[1] * a[2]

RLeq(a, b) == a[1] * b[2] <= b[1] * a[2]

RInt(k) == <<k, 1>>

\* int(x) for x >= 0: truncation
Trunc(r) == r[1] \div r[2]

RMean(a, b) == Rat(a[1] * b[2] + b[1] * a[2], 2 * a[2] * b[2])

\* ------------------------------------------------------------ np.median
RECURSIVE InsertSorted(_, _)
InsertSorted(s, x) ==
    IF s = <<>> THEN <<x>>
    ELSE IF RLeq(x, Head(s)) THEN <<x>> \o s
    ELSE <<Head(s)>> \o InsertSorted(Tail(s), x)

\* SortedWindow without the sort
Unsorted(s) == s

RECURSIVE SortedWindow(_)
SortedWindow(s) == IF s = <<>> THEN <<>> ELSE InsertSorted(SortedWindow(Tail(s)), Head(s))

\* Median with the two middles of an even window added but not halved
MedianSumOfMiddles(s) ==
    LET t == SortedWindow(s)
        n == Len(t)
    IN IF n % 2 = 1 THEN t[(n + 1) \div 2]
       ELSE Rat(t[n \div 2][1] * t[n \div 2 + 1][2] + t[n \div 2 + 1][1] * t[n \div 2][2],
                t[n \div 2][2] * t[n \div 2 + 1][2])

\* the middle of the sorted window, the mean of the two middles when even
Median(s) ==
    LET t == SortedWindow(s)
        n == Len(t)
    IN IF n % 2 = 1 THEN t[(n + 1) \div 2]
       ELSE RMean(t[n \div 2], t[n \div 2 + 1])

\* Push with pop() in place of pop(0): the newest sample is dropped
PushDropNewest(w, x) ==
    LET a == Append(w, x)
    IN IF Len(a) > SMOOTH_N THEN SubSeq(a, 1, SMOOTH_N) ELSE a

\* list.append followed by pop(0) when longer than SMOOTH_N
Push(w, x) ==
    LET a == Append(w, x)
    IN IF Len(a) > SMOOTH_N THEN Tail(a) ELSE a

\* ------------------------------------------------------------ helpers
\* np.degrees(np.arctan2(dy, dx)) on the grid of directions that are
\* multiples of 45 degrees; arctan2(0, 0) is 0
Atan2Deg(dy, dx) ==
    CASE dx = 0 /\ dy = 0 -> 0
      [] dx > 0 /\ dy = 0 -> 0
      [] dx > 0 /\ dy = dx -> 45
      [] dx = 0 /\ dy > 0 -> 90
      [] dx < 0 /\ dy = -dx -> 135
      [] dx < 0 /\ dy = 0 -> 180
      [] dx < 0 /\ dy = dx -> -135
      [] dx = 0 /\ dy < 0 -> -90
      [] dx > 0 /\ dy = -dx -> -45

Abs(x) == IF x < 0 THEN -x ELSE x

\* calculate_angle without the reflection of angles above 180
calculate_angle_unreflected(a, b, c) ==
    Abs(Atan2Deg(c[2] - b[2], c[1] - b[1]) - Atan2Deg(a[2] - b[2], a[1] - b[1]))

calculate_angle(a, b, c) ==
    LET d == Abs(Atan2Deg(c[2] - b[2], c[1] - b[1]) - Atan2Deg(a[2] - b[2], a[1] - b[1]))
    IN IF d > 180 THEN 360 - d ELSE d

\* np.linalg.norm of an integer vector whose length is an integer: the root
\* of the perfect square n, by bisection between lo and hi
RECURSIVE Isqrt(_, _, _)
Isqrt(n, lo, hi) ==
    IF lo >= hi THEN lo
    ELSE LET mid == (lo + hi + 1) \div 2
         IN IF mid * mid <= n THEN Isqrt(n, mid, hi) ELSE Isqrt(n, lo, mid - 1)

\* the distance as a rational number of cm, RInt(0) when the gap is zero.
\* Pixel positions x * 640 and y * 480 are kept in twentieths of a pixel:
\* 20 * 640 / U = 4 and 20 * 480 / U = 3.
estimate_distance_cm(l, r) ==
    LET sx == (20 * FRAME_WIDTH) \div U
        sy == (20 * FRAME_HEIGHT) \div U
        dx == sx * Abs(l[1] - r[1])
        dy == sy * Abs(l[2] - r[2])
        dpx20 == Isqrt(dx * dx + dy * dy, 0, dx + dy)
    IN IF dpx20 = 0 THEN RInt(0)
       ELSE Rat(20 * FOCAL_LENGTH_PX * AVG_SHOULDER_WIDTH_CM, dpx20)

\* center_gaze_label with <= and >= in place of < and >
center_gaze_label_inclusive(nose_x, left_sh_x, right_sh_x) ==
    LET diff2 == 2 * nose_x - (left_sh_x + right_sh_x)
    IN IF diff2 <= -DEADBAND2 THEN "Looking Left"
       ELSE IF diff2 >= DEADBAND2 THEN "Looking Right"
       ELSE "Looking Center"

center_gaze_label(nose_x, left_sh_x, right_sh_x) ==
    LET diff2 == 2 * nose_x - (left_sh_x + right_sh_x)
    IN IF diff2 < -DEADBAND2 THEN "Looking Left"
       ELSE IF diff2 > DEADBAND2 THEN "Looking Right"
       ELSE "Looking Center"

\* ------------------------------------------------------------ frames
LEFT_SHOULDER == "LEFT_SHOULDER"
LEFT_ELBOW == "LEFT_ELBOW"
LEFT_WRIST == "LEFT_WRIST"
RIGHT_SHOULDER == "RIGHT_SHOULDER"
NOSE == "NOSE"
Landmarks == {LEFT_SHOULDER, LEFT_ELBOW, LEFT_WRIST, RIGHT_SHOULDER, NOSE}

\* What pose.process returns for one frame: body is FALSE when
\* pose_landmarks is None; has is the set of landmarks that can be indexed;
\* lm gives the normalized (x, y) of each landmark.
\* The left shoulder is at (2000, 1200) and the left elbow right below it;
\* wrist gives the wrist, rsx and rsy the right shoulder, nx the nose's x.
MkFrame(wrist, rsx, rsy, nx, has) ==
    [body |-> TRUE, has |-> has,
     lm |-> [n \in Landmarks |->
               CASE n = LEFT_SHOULDER -> <<2000, 1200>>
                 [] n = LEFT_ELBOW -> <<2000, 1600>>
                 [] n = LEFT_WRIST -> wrist
                 [] n = RIGHT_SHOULDER -> <<rsx, rsy>>
                 [] n = NOSE -> <<nx, 800>>]]

\* elbow 90 degrees, shoulder gap 195 px (100 cm), nose centred
FrameA == MkFrame(<<2400, 1600>>, 1025, 1200, 1512, Landmarks)
\* elbow 45 degrees, shoulder gap 300 px (65 cm), nose 0.05 left of centre
FrameB == MkFrame(<<2400, 1200>>, 500, 1200, 1090, Landmarks)
\* elbow 135 degrees, shoulders coincide (distance undefined), nose 0.05 right
FrameC == MkFrame(<<2400, 2000>>, 2000, 1200, 2160, Landmarks)
\* elbow 90 degrees, shoulder gap 260 px (75 cm), nose centred
FrameD == MkFrame(<<2400, 1600>>, 700, 1200, 1350, Landmarks)
\* elbow 180 degrees, shoulder gap 150 px (130 cm), nose centred
FrameE == MkFrame(<<2000, 2000>>, 1250, 1200, 1625, Landmarks)
\* elbow 0 degrees, tilted shoulders 117 px by 156 px apart (195 px, 100 cm)
FrameT == MkFrame(<<2000, 800>>, 1415, 2240, 1700, Landmarks)
\* no body detected: pose_landmarks is None
NoBody == [body |-> FALSE, has |-> {}, lm |-> FrameA.lm]
\* FrameB, FrameC with one landmark that cannot be read
Partial(f, n) == [f EXCEPT !.has = Landmarks \ {n}]

PartialFrames == {Partial(FrameB, n) : n \in Landmarks} \cup {Partial(FrameC, NOSE)}

\* the frames the camera delivers in each specification
LiveFrames == {FrameA, NoBody, Partial(FrameB, NOSE)}

SmoothFrames == {FrameA, FrameB, FrameC}

AllFrames == {FrameA, FrameB, FrameC, FrameD, FrameE, FrameT, NoBody} \cup PartialFrames

\* ------------------------------------------------------------ status lines
\* a line is <<text>> or <<text, number shown>>; a status is a list of lines
MoveIntoFrame == <<"Move into Frame">>
CameraNotDetected == <<"Camera not detected">>
UnableToRead == <<"Unable to read from camera">>
InternalError == <<"Internal Error">>
Recenter == <<"Re-center for distance">>
Initializing == <<"Initializing">>

\* ElbowLine with round() in place of int()
ElbowLineRounded(ang_sm) ==
    IF RLeq(RInt(ELBOW_MIN), ang_sm) /\ RLeq(ang_sm, RInt(ELBOW_MAX))
    THEN <<"Elbow Angle OK", (2 * ang_sm[1] + ang_sm[2]) \div (2 * ang_sm[2])>>
    ELSE <<"Adjust Elbow Angle", (2 * ang_sm[1] + ang_sm[2]) \div (2 * ang_sm[2])>>

ElbowLine(ang_sm) ==
    IF RLeq(RInt(ELBOW_MIN), ang_sm) /\ RLeq(ang_sm, RInt(ELBOW_MAX))
    THEN <<"Elbow Angle OK", Trunc(ang_sm)>>
    ELSE <<"Adjust Elbow Angle", Trunc(ang_sm)>>

\* DistanceLine with the band's upper boundary excluded
DistanceLineStrict(z_sm) ==
    IF RLeq(RInt(DIST_MIN_CM), z_sm) /\ RLt(z_sm, RInt(DIST_MAX_CM))
    THEN <<"Distance OK", Trunc(z_sm)>>
    ELSE IF RLt(z_sm, RInt(DIST_MIN_CM))
    THEN <<"Too Close", Trunc(z_sm)>>
    ELSE <<"Too Far", Trunc(z_sm)>>

DistanceLine(z_sm) ==
    IF RLeq(RInt(DIST_MIN_CM), z_sm) /\ RLeq(z_sm, RInt(DIST_MAX_CM))
    THEN <<"Distance OK", Trunc(z_sm)>>
    ELSE IF RLt(z_sm, RInt(DIST_MIN_CM))
    THEN <<"Too Close", Trunc(z_sm)>>
    ELSE <<"Too Far", Trunc(z_sm)>>

Count(w, x) == Cardinality({i \in 1..Len(w) : w[i] = x})

\* VoteWinners without the vote: the label of the current frame
VoteLatest(w) == {w[Len(w)]}

\* max(set(gazes), key=gazes.count): the first label of highest count in
\* the set's iteration order, which for strings is any order
VoteWinners(w) ==
    {x \in {w[i] : i \in 1..Len(w)} : \A j \in 1..Len(w) : Count(w, w[j]) <= Count(w, x)}

\* OnException as "except: pass" on a frame that built no line
OnExceptionPass(A, D, G) ==
    [msgs |-> <<>>, angles |-> A, dists |-> D, gazes |-> G,
     fedA |-> <<>>, fedD |-> <<>>, fedG |-> <<>>]

\* OnException that also empties the buffers
OnExceptionClears(A, D, G) ==
    [msgs |-> <<MoveIntoFrame>>, angles |-> <<>>, dists |-> <<>>, gazes |-> <<>>,
     fedA |-> <<>>, fedD |-> <<>>, fedG |-> <<>>]

\* the except clause of the extraction: the status is replaced, the windows
\* stay as the statements before the failure left them
OnException(A, D, G) ==
    [msgs |-> <<MoveIntoFrame>>, angles |-> A, dists |-> D, gazes |-> G,
     fedA |-> <<>>, fedD |-> <<>>, fedG |-> <<>>]

\* The try block over one pose result f with the windows A, D, G: the set
\* of results it can end with (one per possible winner of the gaze vote).
\* fedA, fedD, fedG list the samples it appended.
Extract(f, A, D, G) ==
    IF ~f.body \/ ~({LEFT_SHOULDER, LEFT_ELBOW, LEFT_WRIST} \subseteq f.has)
    THEN {OnException(A, D, G)}
    ELSE
      LET ang == calculate_angle(f.lm[LEFT_SHOULDER], f.lm[LEFT_ELBOW], f.lm[LEFT_WRIST])
          A1 == Push(A, RInt(ang))
          m1 == ElbowLine(Median(A1))
      IN IF RIGHT_SHOULDER \notin f.has
         THEN {[OnException(A1, D, G) EXCEPT !.fedA = <<RInt(ang)>>]}
         ELSE
           LET z_cm == estimate_distance_cm(f.lm[LEFT_SHOULDER], f.lm[RIGHT_SHOULDER])
               undef == z_cm[1] <= 0
               D1 == IF undef THEN D ELSE Push(D, z_cm)
               fD == IF undef THEN <<>> ELSE <<z_cm>>
               m2 == IF undef THEN Recenter ELSE DistanceLine(Median(D1))
           IN IF NOSE \notin f.has
              THEN {[OnException(A1, D1, G) EXCEPT !.fedA = <<RInt(ang)>>, !.fedD = fD]}
              ELSE
                LET gaze == center_gaze_label(f.lm[NOSE][1], f.lm[LEFT_SHOULDER][1],
                                              f.lm[RIGHT_SHOULDER][1])
                    G1 == Push(G, gaze)
                IN {[msgs |-> <<m1, m2, <<gaze_final>>>>,
                     angles |-> A1, dists |-> D1, gazes |-> G1,
                     fedA |-> <<RInt(ang)>>, fedD |-> fD, fedG |-> <<gaze>>]
                    : gaze_final \in VoteWinners(G1)}

\* ------------------------------------------------------------ state
VARIABLES
    pc,        \* where PostureWorker.run is
    q,         \* the queue.Queue(maxsize=2): entries [id, lines]
    stop,      \* _stop_evt
    cam,       \* _cam: "none", "opened", "failed", "released"
    pose,      \* _pose: "none", "created", "closed"
    angles, dists, gazes,   \* the smoothing buffers
    msgs,      \* the worker's msgs of the current frame
    frame,     \* the pose result of the frame last processed
    err,       \* what raised into the outer except of run: "none" or its cause
    nreads,    \* camera reads so far
    nput,      \* statuses enqueued so far; the id of the latest
    fedA, fedD, fedG,       \* every sample appended to each buffer, in order
    uiPc,      \* the popup: "idle", "pump", "render", "closed"
    uiMsgs,    \* msgs of _pump_queue: <<>> for None, else <<entry>>
    label,     \* the entry whose lines the label shows
    timer,     \* an after(UI_REFRESH_MS, _pump_queue) is pending
    call,      \* a helper called on its own: [fn, ...arguments], or [fn |-> "none"]
    ret        \* what that call returned: <<>> before it returns, else <<value>>

vars == <<pc, q, stop, cam, pose, angles, dists, gazes, msgs, frame, err, nreads, nput,
          fedA, fedD, fedG, uiPc, uiMsgs, label, timer, call, ret>>

workerVars == <<pc, cam, pose, angles, dists, gazes, msgs, frame, err, nreads, fedA, fedD, fedG>>

windowVars == <<angles, dists, gazes, fedA, fedD, fedG>>

uiVars == <<uiPc, uiMsgs, label, timer>>

Entry(lines) == [id |-> nput + 1, lines |-> lines]

\* the program right after main has built the queue, the worker and the popup
ProgramInit ==
    /\ pc = "start"
    /\ q = <<>>
    /\ stop = FALSE
    /\ cam = "none"
    /\ pose = "none"
    /\ angles = <<>> /\ dists = <<>> /\ gazes = <<>>
    /\ msgs = <<>>
    /\ frame = NoBody
    /\ err = "none"
    /\ nreads = 0
    /\ nput = 0
    /\ fedA = <<>> /\ fedD = <<>> /\ fedG = <<>>
    /\ uiPc = "idle"
    /\ uiMsgs = <<>>
    /\ label = [id |-> 0, lines |-> <<Initializing>>]
    /\ timer = TRUE

Init ==
    /\ ProgramInit
    /\ call = [fn |-> "none"]
    /\ ret = <<>>

\* ------------------------------------------------------------ the worker
\* cv2.VideoCapture(0) opens: the pose model is created, the loop entered
CameraOpens ==
    /\ pc = "start"
    /\ cam' = "opened"
    /\ pose' = "created"
    /\ pc' = "loop"
    /\ UNCHANGED <<q, stop, angles, dists, gazes, msgs, frame, err, nreads, nput,
                   fedA, fedD, fedG, uiPc, uiMsgs, label, timer, call, ret>>

\* isOpened() is False: the status is written next, then run returns
CameraFails ==
    /\ pc = "start"
    /\ cam' = "failed"
    /\ pc' = "put_nocam"
    /\ UNCHANGED <<q, stop, pose, angles, dists, gazes, msgs, frame, err, nreads, nput,
                   fedA, fedD, fedG, uiPc, uiMsgs, label, timer, call, ret>>

\* q.put(lines): waits while the queue is full
BlockingPut(lines) ==
    /\ Len(q) < QUEUE_MAXSIZE
    /\ q' = Append(q, Entry(lines))
    /\ nput' = nput + 1

\* PutNoCam without the return that follows it: run goes on into the loop
PutNoCamNoReturn ==
    /\ pc = "put_nocam"
    /\ BlockingPut(<<CameraNotDetected>>)
    /\ pc' = "loop"
    /\ UNCHANGED <<stop, cam, pose, angles, dists, gazes, msgs, frame, err, nreads,
                   fedA, fedD, fedG, uiPc, uiMsgs, label, timer, call, ret>>

PutNoCam ==
    /\ pc = "put_nocam"
    /\ BlockingPut(<<CameraNotDetected>>)
    /\ pc' = "finally"
    /\ UNCHANGED <<stop, cam, pose, angles, dists, gazes, msgs, frame, err, nreads,
                   fedA, fedD, fedG, uiPc, uiMsgs, label, timer, call, ret>>

\* while not self._stop_evt.is_set(); the camera is read at most max times
LoopCheck(max) ==
    /\ pc = "loop"
    /\ IF stop THEN pc' = "finally" ELSE nreads < max /\ pc' = "read"
    /\ UNCHANGED <<q, stop, cam, pose, angles, dists, gazes, msgs, frame, err, nreads, nput,
                   fedA, fedD, fedG, uiPc, uiMsgs, label, timer, call, ret>>

\* ok is False
ReadFail ==
    /\ pc = "read"
    /\ nreads' = nreads + 1
    /\ pc' = "put_readfail"
    /\ UNCHANGED <<q, stop, cam, pose, angles, dists, gazes, msgs, frame, err, nput,
                   fedA, fedD, fedG, uiPc, uiMsgs, label, timer, call, ret>>

\* q.put of the read failure, the sleep, continue
PutReadFail ==
    /\ pc = "put_readfail"
    /\ BlockingPut(<<UnableToRead>>)
    /\ pc' = "loop"
    /\ UNCHANGED <<stop, cam, pose, angles, dists, gazes, msgs, frame, err, nreads,
                   fedA, fedD, fedG, uiPc, uiMsgs, label, timer, call, ret>>

\* cv2.cvtColor or pose.process raises: nothing inside the loop catches it
FrameRaises ==
    /\ pc = "read"
    /\ nreads' = nreads + 1
    /\ err' = "frame"
    /\ pc' = "crash"
    /\ UNCHANGED <<q, stop, cam, pose, angles, dists, gazes, msgs, frame, nput,
                   fedA, fedD, fedG, uiPc, uiMsgs, label, timer, call, ret>>

\* a frame is read and processed, msgs is built
ProcessFrame(f) ==
    /\ pc = "read"
    /\ nreads' = nreads + 1
    /\ frame' = f
    /\ \E r \in Extract(f, angles, dists, gazes) :
          /\ msgs' = r.msgs
          /\ angles' = r.angles
          /\ dists' = r.dists
          /\ gazes' = r.gazes
          /\ fedA' = fedA \o r.fedA
          /\ fedD' = fedD \o r.fedD
          /\ fedG' = fedG \o r.fedG
    /\ pc' = "drain_check"
    /\ UNCHANGED <<q, stop, cam, pose, err, nput, uiPc, uiMsgs, label, timer, call, ret>>

\* while not self.q.empty()
DrainCheck ==
    /\ pc = "drain_check"
    /\ pc' = IF q = <<>> THEN "put_nowait" ELSE "drain_get"
    /\ UNCHANGED <<q, stop, cam, pose, angles, dists, gazes, msgs, frame, err, nreads, nput,
                   fedA, fedD, fedG, uiPc, uiMsgs, label, timer, call, ret>>

\* self.q.get_nowait(): queue.Empty is not queue.Full, it leaves the loop
DrainGet ==
    /\ pc = "drain_get"
    /\ IF q # <<>>
       THEN q' = Tail(q) /\ pc' = "drain_check" /\ err' = err
       ELSE q' = q /\ pc' = "crash" /\ err' = "queue.Empty"
    /\ UNCHANGED <<stop, cam, pose, angles, dists, gazes, msgs, frame, nreads, nput,
                   fedA, fedD, fedG, uiPc, uiMsgs, label, timer, call, ret>>

\* self.q.put_nowait(msgs), queue.Full passed over; the sleep
PutNowait ==
    /\ pc = "put_nowait"
    /\ IF Len(q) < QUEUE_MAXSIZE
       THEN q' = Append(q, Entry(msgs)) /\ nput' = nput + 1
       ELSE q' = q /\ nput' = nput
    /\ pc' = "loop"
    /\ UNCHANGED <<stop, cam, pose, angles, dists, gazes, msgs, frame, err, nreads,
                   fedA, fedD, fedG, uiPc, uiMsgs, label, timer, call, ret>>

\* the outer except: the internal error status is written with q.put
Crash ==
    /\ pc = "crash"
    /\ BlockingPut(<<InternalError>>)
    /\ pc' = "finally"
    /\ UNCHANGED <<stop, cam, pose, angles, dists, gazes, msgs, frame, err, nreads,
                   fedA, fedD, fedG, uiPc, uiMsgs, label, timer, call, ret>>

\* finally: close the pose model if set, release the camera if opened
Finally ==
    /\ pc = "finally"
    /\ pose' = IF pose = "created" THEN "closed" ELSE pose
    /\ cam' = IF cam = "opened" THEN "released" ELSE cam
    /\ pc' = "done"
    /\ UNCHANGED <<q, stop, angles, dists, gazes, msgs, frame, err, nreads, nput,
                   fedA, fedD, fedG, uiPc, uiMsgs, label, timer, call, ret>>

\* ------------------------------------------------------------ the popup
\* the timer fires: msgs = None
PumpStart ==
    /\ uiPc = "idle"
    /\ timer
    /\ timer' = FALSE
    /\ uiMsgs' = <<>>
    /\ uiPc' = "pump"
    /\ UNCHANGED <<q, stop, label, nput>>
    /\ UNCHANGED workerVars
    /\ UNCHANGED <<call, ret>>

\* msgs = self.q.get_nowait() in the while True, until queue.Empty
PumpGet ==
    /\ uiPc = "pump"
    /\ IF q # <<>>
       THEN uiMsgs' = <<Head(q)>> /\ q' = Tail(q) /\ uiPc' = "pump"
       ELSE uiMsgs' = uiMsgs /\ q' = q /\ uiPc' = "render"
    /\ UNCHANGED <<stop, label, timer, nput>>
    /\ UNCHANGED workerVars
    /\ UNCHANGED <<call, ret>>

\* PumpRender with the rescheduling after label.config instead of in finally
PumpRenderNoFinally ==
    /\ uiPc = "render"
    /\ label' = IF uiMsgs # <<>> THEN uiMsgs[1] ELSE label
    /\ timer' = (uiMsgs # <<>>)
    /\ uiPc' = "idle"
    /\ UNCHANGED <<q, stop, uiMsgs, nput>>
    /\ UNCHANGED workerVars
    /\ UNCHANGED <<call, ret>>

\* if msgs: label.config; finally: after(UI_REFRESH_MS, _pump_queue)
PumpRender ==
    /\ uiPc = "render"
    /\ label' = IF uiMsgs # <<>> THEN uiMsgs[1] ELSE label
    /\ timer' = TRUE
    /\ uiPc' = "idle"
    /\ UNCHANGED <<q, stop, uiMsgs, nput>>
    /\ UNCHANGED workerVars
    /\ UNCHANGED <<call, ret>>

\* quit_app destroys the window, mainloop returns, main calls worker.stop()
QuitApp ==
    /\ uiPc = "idle"
    /\ uiPc' = "closed"
    /\ timer' = FALSE
    /\ stop' = TRUE
    /\ UNCHANGED <<q, uiMsgs, label, nput>>
    /\ UNCHANGED workerVars
    /\ UNCHANGED <<call, ret>>

\* ------------------------------------------------------------ specifications
WorkerNext ==
    \/ CameraOpens
    \/ CameraFails
    \/ PutNoCam
    \/ LoopCheck(MaxReads)
    \/ ReadFail
    \/ PutReadFail
    \/ FrameRaises
    \/ \E f \in LiveFrames : ProcessFrame(f)
    \/ DrainCheck
    \/ DrainGet
    \/ PutNowait
    \/ Crash
    \/ Finally

UINext ==
    \/ PumpStart
    \/ PumpGet
    \/ PumpRender
    \/ QuitApp

Next == WorkerNext \/ UINext

\* the worker thread and the popup, every interleaving
Spec == Init /\ [][Next]_vars

\* the same, the worker thread being scheduled whenever it can run
FairSpec == Init /\ [][Next]_vars /\ WF_vars(WorkerNext)

\* the worker alone on a camera that opens and delivers every kind of frame
FramesNext ==
    \/ CameraOpens
    \/ LoopCheck(MaxFrames)
    \/ \E f \in AllFrames : ProcessFrame(f)
    \/ DrainCheck
    \/ DrainGet
    \/ PutNowait

SpecFrames == Init /\ [][FramesNext]_vars

\* the worker alone on a camera that delivers enough frames to fill the windows
SmoothNext ==
    \/ CameraOpens
    \/ LoopCheck(MaxSmoothFrames)
    \/ \E f \in SmoothFrames : ProcessFrame(f)
    \/ DrainCheck
    \/ DrainGet
    \/ PutNowait

SpecSmooth == Init /\ [][SmoothNext]_vars

\* ------------------------------------------------------------ claims
\* the positions of run inside the while loop
LoopPcs == {"loop", "read", "put_readfail", "drain_check", "drain_get", "put_nowait"}

\* C1: while the stop signal is unset, a failure during a frame cycle (the
\* conversion, pose processing, extraction or the drain-then-put hand-off)
\* does not end the worker loop: with the camera opened and stop unset the
\* worker is always inside its loop.
C1_FailureKeepsLoop == (cam = "opened" /\ ~stop) => pc \in LoopPcs

\* the worker left its loop, stop unset, because its own get_nowait found
\* the queue emptied by the popup between q.empty() and the get
C1_HandOffRace == ~stop /\ err = "queue.Empty" /\ pc = "crash" /\ uiPc = "pump"

\* C2: the worker is never blocked on a queue write: it is never at the
\* write of the camera-not-detected or the read-failure status with the
\* queue full (the per-frame write is put_nowait).
C2_WritesNeverWait == ~(pc \in {"put_nocam", "put_readfail"} /\ Len(q) >= QUEUE_MAXSIZE)

\* C3: once stop() has been called while the worker is in its loop, the
\* worker eventually ends with the pose model closed and the camera
\* released.
C3_StopLeadsToRelease ==
    (stop /\ pc \in LoopPcs) ~> (pc = "done" /\ pose = "closed" /\ cam = "released")

\* C4: the hand-off queue always holds at most one pending status.
C4_AtMostOnePending == Len(q) <= 1

\* C5: a poll that ends having taken a status took the one most recently
\* enqueued, and the label never goes back to an older status.
C5_LatestShown ==
    [][/\ (uiPc = "pump" /\ uiPc' = "render" /\ uiMsgs # <<>>) => uiMsgs[1].id = nput
       /\ label'.id >= label.id]_vars

Min(a, b) == IF a < b THEN a ELSE b

LastN(s, n) == SubSeq(s, Len(s) - n + 1, Len(s))

HoldsLastSeven(w, fed) == Len(w) <= 7 /\ w = LastN(fed, Min(Len(fed), 7))

\* C6: each smoothing window holds at most 7 entries, and they are the last
\* min(k, 7) of the k samples appended to it, in the order of insertion.
C6_WindowsHoldLastSeven ==
    /\ HoldsLastSeven(angles, fedA)
    /\ HoldsLastSeven(dists, fedD)
    /\ HoldsLastSeven(gazes, fedG)

\* an eighth sample entered every window and evicted a different oldest one
C6_Evicted ==
    /\ Len(fedA) > 7 /\ Len(fedD) > 7 /\ Len(fedG) > 7
    /\ fedA[1] # fedA[2] /\ fedD[1] # fedD[2] /\ fedG[1] # fedG[2]
    /\ Len(angles) = 7

\* the worker has just processed a frame
FrameStep == pc = "read" /\ pc' = "drain_check"

WindowsUnchanged == angles' = angles /\ dists' = dists /\ gazes' = gazes

\* C7: a frame with a body but without one of the five landmarks yields
\* exactly "Move into Frame" and leaves the three windows as they were.
C7_MissingLandmarkLeavesWindows ==
    [][(FrameStep /\ frame'.body /\ frame'.has # Landmarks)
         => (msgs' = <<MoveIntoFrame>> /\ WindowsUnchanged)]_vars

\* C8: a frame with no body detected yields exactly one line, "Move into
\* Frame", and leaves the angles, dists and gazes windows unchanged.
C8_NoBodyFallback ==
    [][(FrameStep /\ ~frame'.body)
         => (Len(msgs') = 1 /\ msgs'[1] = MoveIntoFrame /\ WindowsUnchanged)]_vars

\* a frame with no body was processed when every window held samples
C8_NoBodySeen ==
    /\ pc = "drain_check" /\ ~frame.body
    /\ msgs = <<MoveIntoFrame>>
    /\ angles # <<>> /\ dists # <<>> /\ gazes # <<>>

\* C9: when the camera cannot be opened the worker enqueues the single
\* status "Camera not detected" and nothing else, ends without raising, and
\* once the label shows that status it shows it after every later poll.
C9_CameraFailureState ==
    cam = "failed" =>
      /\ pc \in {"put_nocam", "finally", "done"}
      /\ err = "none"
      /\ nput = (IF pc = "put_nocam" THEN 0 ELSE 1)
      /\ \A i \in 1..Len(q) : q[i].lines = <<CameraNotDetected>>
      /\ uiMsgs # <<>> => uiMsgs[1].lines = <<CameraNotDetected>>
      /\ label.lines \in {<<Initializing>>, <<CameraNotDetected>>}

C9_CameraNotDetectedOnce ==
    /\ []C9_CameraFailureState
    /\ [][(cam = "failed" /\ label.lines = <<CameraNotDetected>>)
            => label'.lines = <<CameraNotDetected>>]_vars

\* the worker has ended, the label shows the status, and a later poll that
\* found the queue empty is about to render
C9_StillShown ==
    /\ cam = "failed" /\ pc = "done"
    /\ label.lines = <<CameraNotDetected>>
    /\ uiPc = "render" /\ uiMsgs = <<>>

\* the k-th smallest entry of a window, by rank
RankKth(w, k) ==
    CHOOSE x \in {w[i] : i \in 1..Len(w)} :
      /\ Cardinality({i \in 1..Len(w) : RLt(w[i], x)}) < k
      /\ Cardinality({i \in 1..Len(w) : RLeq(w[i], x)}) >= k

RankMedian(w) ==
    IF Len(w) % 2 = 1 THEN RankKth(w, (Len(w) + 1) \div 2)
    ELSE RMean(RankKth(w, Len(w) \div 2), RankKth(w, Len(w) \div 2 + 1))

\* the two shoulders are at the same pixel
GapZero(f) == f.lm[LEFT_SHOULDER] = f.lm[RIGHT_SHOULDER]

\* C10: for a frame with all landmarks the distance line is "Re-center for
\* distance" iff the shoulder gap is zero, and then dists is unchanged;
\* otherwise the raw value is appended and, z being the median of dists,
\* the line is "Distance OK" iff 70 <= z <= 100, "Too Close" iff z < 70 and
\* "Too Far" iff z > 100.
C10_DistanceLine ==
    [][(FrameStep /\ frame'.body /\ frame'.has = Landmarks) =>
         LET line == msgs'[2]
             z == RankMedian(dists')
         IN /\ Len(msgs') = 3
            /\ line[1] \in {"Re-center for distance", "Distance OK", "Too Close", "Too Far"}
            /\ (line[1] = "Re-center for distance") <=> GapZero(frame')
            /\ GapZero(frame') => (dists' = dists /\ fedD' = fedD)
            /\ ~GapZero(frame') =>
                 /\ Len(fedD') = Len(fedD) + 1
                 /\ dists' = LastN(fedD', Min(Len(fedD'), 7))
                 /\ fedD'[Len(fedD')][1] > 0
                 /\ (line[1] = "Distance OK") <=> (RLeq(RInt(70), z) /\ RLeq(z, RInt(100)))
                 /\ (line[1] = "Too Close") <=> RLt(z, RInt(70))
                 /\ (line[1] = "Too Far") <=> RLt(RInt(100), z)]_vars

\* a frame at the upper boundary: one sample of exactly 100 cm is the median
C10_UpperBoundary ==
    /\ pc = "drain_check" /\ frame.body /\ frame.has = Landmarks
    /\ dists = <<RInt(65), RInt(130), RInt(100)>>
    /\ msgs[2] = <<"Distance OK", 100>>

\* ------------------------------------------------------------ helpers called on their own
\* the eight directions that are multiples of 45 degrees, and no direction
Dirs == {<<dx, dy>> : dx \in {-1, 0, 1}, dy \in {-1, 0, 1}}

Elbows == {<<2000, 1600>>, <<800, 2400>>}

Plus(p, d, k) == <<p[1] + k * d[1], p[2] + k * d[2]>>

\* calculate_angle(a, b, c) with a and c in any direction from b, or at b
AngleCalls ==
    {[fn |-> "calculate_angle", a |-> Plus(b, da, 400), b |-> b, c |-> Plus(b, dc, 200)]
       : b \in Elbows, da \in Dirs, dc \in Dirs}

\* center_gaze_label with the nose up to 165 units (0.0516) either side of
\* the middle of the shoulders
GazeCalls ==
    {[fn |-> "center_gaze_label", nose_x |-> (l + r) \div 2 + k, left_sh_x |-> l, right_sh_x |-> r]
       : l \in {1600, 2000}, r \in {1025, 1200, 2000}, k \in -165..165}

\* the values fed to a numeric window on its own
SampleValues == {<<10, 1>>, <<90, 1>>, <<170, 1>>}

WindowsOfLen(n) == [1..n -> SampleValues]

\* append x to the window w, pop(0) when over SMOOTH_N, np.median: for
\* every window of up to SMOOTH_N samples
SmoothCalls ==
    {[fn |-> "smooth", w |-> w, x |-> x]
       : w \in UNION {WindowsOfLen(n) : n \in 0..SMOOTH_N}, x \in SampleValues}

\* angles around the lower end of the band and at its upper end
ElbowValues == {<<0, 1>>, <<45, 1>>, <<49, 1>>, <<50, 1>>, <<51, 1>>, <<180, 1>>}

\* the elbow lines of the loop on their own: append the angle, pop(0),
\* np.median, classify; for every window of up to 3 angles
ElbowCalls ==
    {[fn |-> "elbow", w |-> w, x |-> x]
       : w \in UNION {[1..n -> ElbowValues] : n \in 0..3}, x \in ElbowValues}

Calls == AngleCalls \cup GazeCalls \cup SmoothCalls \cup ElbowCalls

PureInit ==
    /\ ProgramInit
    /\ call \in Calls
    /\ ret = <<>>

ReturnAngle ==
    /\ call.fn = "calculate_angle"
    /\ ret = <<>>
    /\ ret' = <<calculate_angle(call.a, call.b, call.c)>>
    /\ UNCHANGED <<pc, q, stop, cam, pose, angles, dists, gazes, msgs, frame, err, nreads, nput,
                   fedA, fedD, fedG, uiPc, uiMsgs, label, timer, call>>

ReturnGaze ==
    /\ call.fn = "center_gaze_label"
    /\ ret = <<>>
    /\ ret' = <<center_gaze_label(call.nose_x, call.left_sh_x, call.right_sh_x)>>
    /\ UNCHANGED <<pc, q, stop, cam, pose, angles, dists, gazes, msgs, frame, err, nreads, nput,
                   fedA, fedD, fedG, uiPc, uiMsgs, label, timer, call>>

\* the window after the append and the smoothed value
ReturnSmooth ==
    /\ call.fn = "smooth"
    /\ ret = <<>>
    /\ ret' = <<[w |-> Push(call.w, call.x), sm |-> Median(Push(call.w, call.x))]>>
    /\ UNCHANGED <<pc, q, stop, cam, pose, angles, dists, gazes, msgs, frame, err, nreads, nput,
                   fedA, fedD, fedG, uiPc, uiMsgs, label, timer, call>>

\* the window after the append and the elbow line
ReturnElbow ==
    /\ call.fn = "elbow"
    /\ ret = <<>>
    /\ ret' = <<[w |-> Push(call.w, call.x), line |-> ElbowLine(Median(Push(call.w, call.x)))]>>
    /\ UNCHANGED <<pc, q, stop, cam, pose, angles, dists, gazes, msgs, frame, err, nreads, nput,
                   fedA, fedD, fedG, uiPc, uiMsgs, label, timer, call>>

PureNext ==
    \/ ReturnAngle
    \/ ReturnGaze
    \/ ReturnSmooth
    \/ ReturnElbow

\* each helper called once on each of its inputs
SpecPure == PureInit /\ [][PureNext]_vars

\* ------------------------------------------------------------ claims, continued
Minus(p, r) == <<p[1] - r[1], p[2] - r[2]>>

Dot(u, v) == u[1] * v[1] + u[2] * v[2]

Cross(u, v) == u[1] * v[2] - u[2] * v[1]

\* the direction of u in degrees from 0 to 315, 0 for no direction
DirDeg(u) ==
    LET x == u[1]
        y == u[2]
    IN IF y = 0 THEN (IF x < 0 THEN 180 ELSE 0)
       ELSE IF y > 0 THEN (IF x > 0 THEN 45 ELSE IF x = 0 THEN 90 ELSE 135)
       ELSE (IF x < 0 THEN 225 ELSE IF x = 0 THEN 270 ELSE 315)

\* t is the angle between the vectors u and v, both non-zero, on the grid
IsAngleBetween(t, u, v) ==
    /\ t = 0 <=> (Cross(u, v) = 0 /\ Dot(u, v) > 0)
    /\ t = 45 <=> (Dot(u, v) > 0 /\ Abs(Cross(u, v)) = Dot(u, v))
    /\ t = 90 <=> Dot(u, v) = 0
    /\ t = 135 <=> (Dot(u, v) < 0 /\ Abs(Cross(u, v)) = -Dot(u, v))
    /\ t = 180 <=> (Cross(u, v) = 0 /\ Dot(u, v) < 0)

AngleReturned == call.fn = "calculate_angle" /\ ret # <<>>

\* C11: over the grid of directions calculate_angle returns a value in
\* [0, 180]: the absolute difference of the two direction angles, replaced
\* by 360 minus itself when above 180; for distinct points it is the angle
\* between the vectors from b to a and from b to c.
C11_AngleInRange ==
    AngleReturned =>
      LET t == ret[1]
          u == Minus(call.a, call.b)
          v == Minus(call.c, call.b)
          d == Abs(DirDeg(v) - DirDeg(u))
      IN /\ 0 <= t /\ t <= 180
         /\ t = (IF d > 180 THEN 360 - d ELSE d)
         /\ (u # <<0, 0>> /\ v # <<0, 0>>) => IsAngleBetween(t, u, v)

\* a call whose two arctan2 values differ by 270 degrees returned 90
C11_Reflected ==
    /\ AngleReturned
    /\ call.a = <<1600, 1200>> /\ call.b = <<2000, 1600>> /\ call.c = <<1800, 1800>>
    /\ ret = <<90>>

\* C12: when the shoulder or the wrist coincides with the elbow,
\* calculate_angle returns (it does not raise) and the result is 0 or 180
\* degrees (the code has no undefined marker).
C12_DegenerateIsZeroOrStraight ==
    (call.fn = "calculate_angle" /\ (call.a = call.b \/ call.c = call.b))
      => (ENABLED ReturnAngle \/ (ret # <<>> /\ ret[1] \in {0, 180}))

\* the shoulder is at the elbow, the wrist diagonal to it: 45 was returned
C12_DegenerateGivesFortyFive ==
    /\ AngleReturned
    /\ call.a = call.b /\ call.c = Plus(call.b, <<1, 1>>, 200)
    /\ ret = <<45>>

GazeReturned == call.fn = "center_gaze_label" /\ ret # <<>>

\* twice nose_x - (left_x + right_x) / 2, in units: 0.03 is 192, 0.05 is
\* 320 and 0.01 is 64
Diff2 == 2 * call.nose_x - (call.left_sh_x + call.right_sh_x)

\* C13: center_gaze_label returns "Looking Left" iff diff < -0.03, "Looking
\* Right" iff diff > 0.03 and "Looking Center" otherwise, so also at diff =
\* -0.03 and 0.03; the midpoint and midpoint +/- 0.01 give Center, midpoint
\* - 0.05 gives Left and midpoint + 0.05 gives Right.
C13_GazeDeadband ==
    GazeReturned =>
      /\ ret[1] \in {"Looking Left", "Looking Right", "Looking Center"}
      /\ ret[1] = "Looking Left" <=> Diff2 < -192
      /\ ret[1] = "Looking Right" <=> Diff2 > 192
      /\ Diff2 \in {-192, 192, 0, -64, 64} => ret[1] = "Looking Center"
      /\ Diff2 = -320 => ret[1] = "Looking Left"
      /\ Diff2 = 320 => ret[1] = "Looking Right"

\* a call with diff exactly 0.03 returned Center
C13_AtBoundary == GazeReturned /\ Diff2 = 192 /\ ret = <<"Looking Center">>

\* Every frame processed so far was the frame of elbow angle a.  (The
\* frames of SmoothFrames differ in their elbow angle, and each of them
\* appends its angle.)
OnlySaw(a) ==
    /\ nreads >= 1
    /\ Len(fedA) = nreads
    /\ \A i \in 1..Len(fedA) : fedA[i] = <<a, 1>>

\* C14: after k >= 1 identical detected frames from the start, the status
\* is the classification of the frame's raw metrics; 8 frames of elbow
\* angle 90, shoulder gap 195 px and centred nose give "Elbow Angle OK
\* (90)", "Distance OK (100 cm)", "Looking Center".
C14_ConstantStream ==
    /\ OnlySaw(90) =>
         msgs = <<<<"Elbow Angle OK", 90>>, <<"Distance OK", 100>>, <<"Looking Center">>>>
    /\ OnlySaw(45) =>
         msgs = <<<<"Adjust Elbow Angle", 45>>, <<"Too Close", 65>>, <<"Looking Left">>>>
    /\ OnlySaw(135) =>
         msgs = <<<<"Elbow Angle OK", 135>>, <<"Re-center for distance">>, <<"Looking Right">>>>

\* eight frames of elbow angle 90 and distance 100 cm were processed
C14_EightFrames ==
    /\ OnlySaw(90) /\ nreads = 8 /\ frame = FrameA
    /\ Len(angles) = 7 /\ Len(fedD) = 8
    /\ msgs = <<<<"Elbow Angle OK", 90>>, <<"Distance OK", 100>>, <<"Looking Center">>>>

Occurrences(w, x) == Cardinality({i \in DOMAIN w : w[i] = x})

GazeLabels == {"Looking Left", "Looking Right", "Looking Center"}

\* the window of the spec's example: left, left, center, left, right, left, center
ExampleGazes ==
    <<"Looking Left", "Looking Left", "Looking Center", "Looking Left",
      "Looking Right", "Looking Left", "Looking Center">>

\* C15: the gaze line of a detected frame is a label whose number of
\* occurrences in the gazes window, the frame's label included, is maximal
\* (so the one label with strictly more occurrences, when there is one);
\* the window left, left, center, left, right, left, center gives left.
C15_GazeIsMostFrequent ==
    (nreads >= 1 /\ Len(msgs) = 3) =>
      /\ Len(msgs[3]) = 1
      /\ msgs[3][1] \in GazeLabels
      /\ \A x \in GazeLabels : Occurrences(gazes, x) <= Occurrences(gazes, msgs[3][1])
      /\ gazes = ExampleGazes => msgs[3] = <<"Looking Left">>

\* the example window was reached, and the current frame's own label
\* (center) is not the one emitted
C15_ExampleWindow ==
    /\ pc = "drain_check"
    /\ gazes = ExampleGazes
    /\ msgs[3] = <<"Looking Left">>

SmoothReturned == call.fn = "smooth" /\ ret # <<>>

\* the window 10, 10, 10, 170, 10, 10, 10
ExampleWindow ==
    <<<<10, 1>>, <<10, 1>>, <<10, 1>>, <<170, 1>>, <<10, 1>>, <<10, 1>>, <<10, 1>>>>

\* C16: the smoothed value is the median of the window after the new
\* sample is appended; in a full window of 7 with at least 4 entries equal
\* to v it is v, whatever and wherever the others; 10, 10, 10, 170, 10, 10,
\* 10 gives 10.
C16_SmoothedIsMedian ==
    SmoothReturned =>
      LET w == ret[1].w
          sm == ret[1].sm
          all == Append(call.w, call.x)
      IN /\ w = LastN(all, Min(Len(all), 7))
         /\ sm = RankMedian(w)
         /\ \A v \in SampleValues : (Len(w) = 7 /\ Occurrences(w, v) >= 4) => sm = v
         /\ w = ExampleWindow => sm = <<10, 1>>

\* the example window came about by an eviction and gave 10
C16_OutlierIgnored ==
    /\ SmoothReturned
    /\ Len(call.w) = 7 /\ call.w[1] = <<90, 1>>
    /\ ret[1].w = ExampleWindow
    /\ ret[1].sm = <<10, 1>>

\* a status of one fallback or error line, or of an elbow line, a distance
\* line and a gaze line in this order
WellFormedStatus(lines) ==
    \/ /\ Len(lines) = 1
       /\ lines[1] \in {<<"Move into Frame">>, <<"Camera not detected">>,
                         <<"Unable to read from camera">>, <<"Internal Error">>}
    \/ /\ Len(lines) = 3
       /\ lines[1][1] \in {"Elbow Angle OK", "Adjust Elbow Angle"}
       /\ lines[2][1] \in {"Re-center for distance", "Distance OK", "Too Close", "Too Far"}
       /\ lines[3][1] \in GazeLabels

\* the worker is handing over the status of the frame it has just processed
HandingOver == pc \in {"drain_check", "drain_get", "put_nowait"}

\* C17: every status on the queue, taken by the popup or about to be
\* enqueued is one fallback or error line or the three lines elbow,
\* distance, gaze; a frame with every landmark gives the three lines, any
\* other frame the single line.
C17_StatusShape ==
    /\ \A i \in 1..Len(q) : WellFormedStatus(q[i].lines)
    /\ uiMsgs # <<>> => WellFormedStatus(uiMsgs[1].lines)
    /\ label.id > 0 => WellFormedStatus(label.lines)
    /\ HandingOver =>
         /\ WellFormedStatus(msgs)
         /\ Len(msgs) = 3 <=> (frame.body /\ frame.has = Landmarks)

\* the status of a frame that raised after two lines were built is on the
\* queue as the single fallback line
C17_PartialReplaced ==
    /\ pc = "loop"
    /\ frame = Partial(FrameB, NOSE) /\ dists # <<>>
    /\ Len(q) = 1 /\ q[1].lines = <<MoveIntoFrame>>

ElbowReturned == call.fn = "elbow" /\ ret # <<>>

\* n is m truncated to an integer, m >= 0
IsTruncationOf(n, m) == RLeq(<<n, 1>>, m) /\ RLt(m, <<n + 1, 1>>)

\* C18: the elbow line is "Elbow Angle OK" iff the median m of the angles
\* window satisfies 50 <= m <= 180 and "Adjust Elbow Angle" otherwise,
\* that is exactly when m < 50; the number shown is m truncated.
C18_ElbowLine ==
    ElbowReturned =>
      LET m == RankMedian(ret[1].w)
          line == ret[1].line
      IN /\ Len(line) = 2
         /\ line[1] \in {"Elbow Angle OK", "Adjust Elbow Angle"}
         /\ line[1] = "Elbow Angle OK" <=> (RLeq(<<50, 1>>, m) /\ RLeq(m, <<180, 1>>))
         /\ line[1] = "Adjust Elbow Angle" <=> RLt(m, <<50, 1>>)
         /\ IsTruncationOf(line[2], m)

\* a median of 49.5 was classified: Adjust, shown as 49
C18_JustBelowBand ==
    /\ ElbowReturned
    /\ RankMedian(ret[1].w) = <<99, 2>>
    /\ ret[1].line = <<"Adjust Elbow Angle", 49>>

\* the status lines the worker can produce for frame f in the current state
StatusesFor(f) == {r.msgs : r \in Extract(f, angles, dists, gazes)}

\* C19: the statuses are a deterministic function of the frames: whenever
\* the worker is about to read a frame, the windows built from the frames so
\* far and the frame read leave one possible status, ties in the gazes
\* window included.
C19_StatusDetermined ==
    pc = "read" => \A f \in SmoothFrames : Cardinality(StatusesFor(f)) = 1

\* centre then left were fed, the two labels tie, and this run shows left
\* (the frame's own label) where another run shows centre
C19_TieShownAsLeft ==
    /\ pc = "drain_check"
    /\ fedG = <<"Looking Center", "Looking Left">>
    /\ msgs[3] = <<"Looking Left">>
    /\ Cardinality(VoteWinners(gazes)) = 2

\* the popup is inside _pump_queue
Polling == uiPc \in {"pump", "render"}

\* C20: a poll whose first get_nowait finds the queue empty (msgs is still
\* None when the loop is left) leaves the label as it was, the text changes
\* only to a status the poll has taken, and the step that ends a poll has
\* scheduled the next one.
C20_EmptyPollKeepsText ==
    [][/\ (uiPc = "render" /\ uiMsgs = <<>>) => label' = label
       /\ label' # label => (uiPc = "render" /\ uiMsgs # <<>> /\ label' = uiMsgs[1])
       /\ (Polling /\ ~Polling') => (uiPc' = "idle" /\ timer')]_vars

\* a status is on display, a later poll found the queue empty and has
\* ended: the status is still shown and the next poll is scheduled
C20_EmptyPollAfterStatus ==
    /\ uiPc = "idle"
    /\ uiMsgs = <<>>
    /\ label.id > 0
    /\ timer

====
